---- MODULE Spec2Model ----
(***************************************************************************)
(* FinGLM2 (finglm_v1): the refinement orchestrator                        *)
(* FinanceQASystem.process_question, the understanding step                *)
(* ParserAgent.parse, the retrying DatabaseClient.execute, the answer      *)
(* extraction of AnswerGenerator.generate_answer, the in-memory            *)
(* DialogueManager (get_context / update_history), the table vector store, *)
(* the retry wrappers of the collaborator calls and the batch driver       *)
(* QuestionProcessor.process_all_tids.                                     *)
(*                                                                         *)
(* Texts are sequences of tokens: a question id is a sequence of           *)
(* characters ("-" is the separator), an answer is a sequence of words,    *)
(* whitespace tokens and the sentinel token.                               *)
(***************************************************************************)
EXTENDS Integers, Sequences, FiniteSets, TLC

VARIABLES
    max_history,      \* DialogueManager.max_history
    context_window,   \* DialogueManager.context_window
    dialogues,        \* DialogueManager.dialogues: dialogue_id -> turns
    clock,            \* source of DialogueTurn.timestamp (datetime.now)
    apiCtx,           \* outcome of the latest direct get_context call
    pc,               \* position of the process_question call
    question_id,      \* process_question argument
    question,         \* process_question argument
    context,          \* process_question local: the context in use
    iter,             \* process_question local: loop variable
    understanding,    \* process_question local
    sql,              \* process_question local
    data,             \* process_question local
    answer,           \* process_question local / return value
    error,            \* the exception process_question raised, if any
    script,           \* what the generative service replies to answer requests
    log,              \* observations of the current call (calls made, failures)
    dialogueRefs,     \* self.dialogues as the worker threads see it: id -> Dialogue object
    dialogueObjs,     \* the Dialogue objects: each holds the reference of its turns list
    turnLists,        \* the list objects
    workers,          \* the worker threads: position and locals of their update_history call
    index,            \* TableVectorStore.index: the indexed vectors, by position
    count,            \* TableVectorStore.metadata.count
    searched,         \* outcome of the latest direct search call
    parsed,           \* outcome of the latest parse over the vector store
    generated,        \* outcome of the latest direct generate_answer extraction
    call,             \* a collaborator call under its retry wrapper
    tid_groups,       \* process_all_tids: the input list of TID groups
    futures,          \* process_all_tids: the submitted task of each group
    processed_results, \* process_all_tids: the result list built so far
    run_pc            \* position of the process_all_tids call

vars == <<max_history, context_window, dialogues, clock, apiCtx, pc, question_id,
          question, context, iter, understanding, sql, data, answer, error,
          script, log, dialogueRefs, dialogueObjs, turnLists, workers,
          index, count, searched, parsed, generated, call, tid_groups, futures,
          processed_results, run_pc>>

dmVars == <<max_history, context_window, dialogues, clock, apiCtx>>
pqVars == <<pc, question_id, question, context, iter, understanding, sql, data,
            answer, error, script, log>>
mtVars == <<dialogueRefs, dialogueObjs, turnLists, workers>>
vsVars == <<index, count, searched, parsed>>
gaVars == <<generated>>
rtVars == <<call>>
runVars == <<tid_groups, futures, processed_results, run_pc>>
extVars == <<mtVars, vsVars, gaVars, rtVars, runVars>>

----------------------------------------------------------------------------
(* Bounds of the model *)

\* configured max_history ranges over 0..MaxHistoryCfg
MaxHistoryCfg == 2
\* configured context_window ranges over 0..MaxWindowCfg
MaxWindowCfg == 2
\* number of update_history calls explored
MaxAppends == 3
\* number of vectors the index grows to
MaxIndex == 3
\* k of a direct search call ranges over 1..MaxK
MaxK == 3
\* a reply of the generative service has at most MaxContent tokens
MaxContent == 4
\* the max_retries given to a retry wrapper ranges over 1..MaxRetriesCfg
MaxRetriesCfg == 4
\* the input of process_all_tids has up to MaxGroups TID groups
MaxGroups == 11

(* Program constants *)

\* max_iteration = 3
max_iteration == 3
\* @retry_on_error(max_retries=3, delay=1)
max_retries == 3
\* @retry_on_error(max_retries=3, delay=1)
delay == 1
\* stop=stop_after_attempt(3)
stop_after_attempt == 3
\* wait=wait_exponential(multiplier=1, min=4, max=10)
wait_multiplier == 1
wait_min == 4
wait_max == 10
\* generate(..., timeout: float = 30.0)
llm_timeout == 30
\* for item in data[:10]
group_slice == 10
\* ThreadPoolExecutor(max_workers=8)
pool_max_workers == 8

----------------------------------------------------------------------------
(* Values *)

Sep == "-"
Sentinel == "<|FINISH|>"
Space == " "
ResponseTag == "RESPONSE:"

QuestionIds == { <<"a", "-", "1">>, <<"a", "-", "2">>, <<"b", "-", "1">> }
Questions == { "q1" }
Rewrites == { "rw" }
ApiAnswers == { <<"partial">> }
Sqls == { "SELECT" }

Min(a, b) == IF a <= b THEN a ELSE b
Max(a, b) == IF a >= b THEN a ELSE b

\* Python s[-n:] for n >= 0: the last n items, and the whole list when n = 0
LastSlice(s, n) ==
    IF n = 0 THEN s
    ELSE SubSeq(s, Max(1, Len(s) - n + 1), Len(s))

\* index of the first occurrence of tok in s, 0 when absent
FirstIndex(s, tok) ==
    IF \E i \in 1..Len(s) : s[i] = tok
    THEN CHOOSE i \in 1..Len(s) : s[i] = tok /\ \A j \in 1..(i - 1) : s[j] # tok
    ELSE 0

\* Python s.split(tok)[0]: the text before the first occurrence of tok
SplitFirst(s, tok) ==
    IF FirstIndex(s, tok) = 0 THEN s ELSE SubSeq(s, 1, FirstIndex(s, tok) - 1)

\* question_id.split("-")[0]
DialogueIdOf(qid) == SplitFirst(qid, Sep)

----------------------------------------------------------------------------
(* DialogueManager *)

\* QuestionContext(): empty history, empty metadata
EmptyContext == [isNone |-> FALSE, history |-> <<>>, metadata |-> <<>>]

\* context=None
NoneContext == [isNone |-> TRUE, history |-> <<>>, metadata |-> <<>>]

\* dialogue.turns[-self.context_window:]
RecentTurns(turns, W) == LastSlice(turns, W)

HistoryOfPairs(recent) ==
    [j \in 1..(2 * Len(recent)) |->
        [role    |-> IF j % 2 = 1 THEN "human" ELSE "assistant",
         content |-> IF j % 2 = 1 THEN recent[(j + 1) \div 2].question
                                  ELSE recent[j \div 2].answer]]

\* one history entry per recent turn; enumerate() counts from 0
HistoryOf(recent) ==
    [j \in 1..Len(recent) |->
        [role    |-> IF (j - 1) % 2 = 0 THEN "human" ELSE "assistant",
         content |-> IF (j - 1) % 2 = 0 THEN recent[j].question
                                         ELSE recent[j].answer]]

GetContextUnknownRaises(ds, qid, W) ==
    IF DialogueIdOf(qid) \notin DOMAIN ds
    THEN [raised |-> TRUE, ctx |-> EmptyContext]
    ELSE [raised |-> FALSE,
          ctx |-> [isNone |-> FALSE,
                   history |-> HistoryOf(RecentTurns(ds[DialogueIdOf(qid)], W)),
                   metadata |-> [dialogue_id |-> DialogueIdOf(qid),
                                 question_id |-> qid,
                                 turn_count |-> Len(ds[DialogueIdOf(qid)])]]]

\* DialogueManager.get_context: never raises (every exception is turned into
\* an empty context)
GetContext(ds, qid, W) ==
    IF DialogueIdOf(qid) \notin DOMAIN ds
    THEN [raised |-> FALSE, ctx |-> EmptyContext]
    ELSE [raised |-> FALSE,
          ctx |-> [isNone |-> FALSE,
                   history |-> HistoryOf(RecentTurns(ds[DialogueIdOf(qid)], W)),
                   metadata |-> [dialogue_id |-> DialogueIdOf(qid),
                                 question_id |-> qid,
                                 turn_count |-> Len(ds[DialogueIdOf(qid)])]]]

\* DialogueTurn(question_id, question, answer), timestamp = datetime.now()
Turn(qid, q, a, now) ==
    [question_id |-> qid, question |-> q, answer |-> a, timestamp |-> now]

\* the turns of the dialogue after the append and the trim
TurnsAfterAppend(turns, t, H) ==
    IF Len(Append(turns, t)) > H
    THEN LastSlice(Append(turns, t), H)
    ELSE Append(turns, t)

UpdateHistoryKeyedByQuestionId(ds, qid, q, a, now, H) ==
    LET old == IF qid \in DOMAIN ds THEN ds[qid] ELSE <<>>
    IN  [x \in (DOMAIN ds) \cup {qid} |->
            IF x = qid THEN TurnsAfterAppend(old, Turn(qid, q, a, now), H)
            ELSE ds[x]]

\* DialogueManager.update_history: get or create the dialogue, append, trim
UpdateHistory(ds, qid, q, a, now, H) ==
    LET d   == DialogueIdOf(qid)
        old == IF d \in DOMAIN ds THEN ds[d] ELSE <<>>
    IN  [x \in (DOMAIN ds) \cup {d} |->
            IF x = d THEN TurnsAfterAppend(old, Turn(qid, q, a, now), H)
            ELSE ds[x]]

----------------------------------------------------------------------------
(* ParserAgent (agents/nlu.py) *)

None == "None"

\* bool(x) of an optional string
Truthy(x) == x # None /\ x # ""

\* english table names of the data dictionary rows, by position
Catalog == << "t0", "t1" >>
\* keys of ParserAgent.table_schemas
SchemaTables == { "t0", "t1" }
\* results of vector_store.search(rewritten_question, k=25): row positions
HitLists == { <<>>, <<0>>, <<1, 0>> }

\* replies of the generative service to the rewrite request, or its failure
RewriteOutcomes ==
    { [ok |-> FALSE, text |-> ""] } \cup { [ok |-> TRUE, text |-> t] : t \in Rewrites }

\* contents the generative service may return to the entity-extraction
\* request: fenced (```json ... ```) or not, with or without text around the
\* payload, the payload in braces or not, well-formed JSON or not, of the
\* requested shape or not
Output(fenced, around, braces, wellformed, shape, tables, values) ==
    [fenced |-> fenced, around |-> around, braces |-> braces,
     wellformed |-> wellformed, shape |-> shape, tables |-> tables,
     values |-> values]

ExtractionOutputs ==
    { Output(FALSE, TRUE,  TRUE,  TRUE,  TRUE,  <<"t0">>, <<"v">>),
      Output(FALSE, FALSE, FALSE, FALSE, FALSE, <<>>,     <<>>),
      Output(FALSE, FALSE, TRUE,  FALSE, FALSE, <<>>,     <<>>),
      Output(TRUE,  TRUE,  TRUE,  TRUE,  FALSE, <<>>,     <<>>),
      Output(TRUE,  TRUE,  TRUE,  TRUE,  TRUE,  <<"t0">>, <<"v">>),
      Output(FALSE, FALSE, TRUE,  TRUE,  TRUE,  <<None>>, <<"">>),
      Output(TRUE,  FALSE, TRUE,  TRUE,  TRUE,  <<"t0", "t1", "t0">>, <<>>) }

ExtractionOutcomes ==
    { [ok |-> FALSE, out |-> Output(FALSE, FALSE, FALSE, FALSE, FALSE, <<>>, <<>>)] }
    \cup { [ok |-> TRUE, out |-> o] : o \in ExtractionOutputs }

\* re.search(r"```(?:json)?\s*({[\s\S]*?})\s*```|^({[\s\S]*})$", content):
\* an object inside a fence anywhere, or the whole content being one object
JsonFound(out) == out.braces /\ (out.fenced \/ ~out.around)

\* json.loads(json_str) succeeds
JsonLoads(out) == out.wellformed

\* the .get() chain and the Entity constructors raise nothing
ShapeOk(out) == out.shape

\* Entity.is_valid
IsValid(e) == Truthy(e.table_name) \/ Truthy(e.entity_value)

\* the entities built from a parsed JSON result, invalid ones dropped
EntitiesOfJson(out) ==
    SelectSeq([i \in 1..Len(out.tables) |->
                  [table_name |-> out.tables[i], entity_value |-> None]], IsValid)
    \o
    SelectSeq([i \in 1..Len(out.values) |->
                  [table_name |-> None, entity_value |-> out.values[i]]], IsValid)

RewriteIfContextGiven(ctx) == ~ctx.isNone

\* parse and _rewrite_question: the rewrite request is sent only for a context
\* that is not None and has a non-empty history
RewriteNeeded(ctx) == ~ctx.isNone /\ ctx.history # <<>>

ExtractEntitiesNoCatch(out) ==
    IF ~JsonFound(out) THEN [raised |-> FALSE, entities |-> <<>>]
    ELSE IF ~JsonLoads(out) THEN [raised |-> TRUE, entities |-> <<>>]
    ELSE IF ~ShapeOk(out) THEN [raised |-> FALSE, entities |-> <<>>]
    ELSE [raised |-> FALSE, entities |-> EntitiesOfJson(out)]

\* _extract_entities after the reply arrived: no JSON found, JSONDecodeError
\* and any other exception all give []
ExtractEntities(out) ==
    IF ~JsonFound(out) THEN [raised |-> FALSE, entities |-> <<>>]
    ELSE IF ~JsonLoads(out) THEN [raised |-> FALSE, entities |-> <<>>]
    ELSE IF ~ShapeOk(out) THEN [raised |-> FALSE, entities |-> <<>>]
    ELSE [raised |-> FALSE, entities |-> EntitiesOfJson(out)]

IlocSkipsMissing(catalog, idx) ==
    IF idx >= 0 /\ idx < Len(catalog)
    THEN [raised |-> FALSE, row |-> catalog[idx + 1]]
    ELSE IF idx < 0 /\ idx >= 0 - Len(catalog)
    THEN [raised |-> FALSE, row |-> catalog[Len(catalog) + idx + 1]]
    ELSE [raised |-> FALSE, row |-> None]

\* data_dictionary[column].iloc[idx]: the row at position idx, counted from
\* the end for a negative idx, IndexError when there is no such row
Iloc(catalog, idx) ==
    IF idx >= 0 /\ idx < Len(catalog)
    THEN [raised |-> FALSE, row |-> catalog[idx + 1]]
    ELSE IF idx < 0 /\ idx >= 0 - Len(catalog)
    THEN [raised |-> FALSE, row |-> catalog[Len(catalog) + idx + 1]]
    ELSE [raised |-> TRUE, row |-> None]

\* the tables kept from the search results: those with a parsed schema
RelevantTables(hits) ==
    SelectSeq([i \in 1..Len(hits) |-> Iloc(Catalog, hits[i]).row],
              LAMBDA t : t \in SchemaTables)

RECURSIVE TablesOfEntities(_, _)
\* for entity in entities if entity.table_name
\*     for table in relevant_tables if entity.table_name == table.english_name
TablesOfEntities(entities, relevant) ==
    IF entities = <<>> THEN <<>>
    ELSE (IF Truthy(Head(entities).table_name)
          THEN SelectSeq(relevant, LAMBDA t : t = Head(entities).table_name)
          ELSE <<>>)
         \o TablesOfEntities(Tail(entities), relevant)

NoUnderstanding == [question |-> "", entities |-> <<>>, relevant_tables |-> <<>>]

\* ParserAgent.parse with the replies rw (rewrite) and ex (entity extraction)
\* and the search results hits
Parse(q, ctx, rw, hits, ex) ==
    LET need      == RewriteNeeded(ctx)
        rewritten == IF need THEN rw.text ELSE q
        ee        == ExtractEntities(ex.out)
    IN  IF need /\ ~rw.ok
        THEN [raised |-> TRUE, error |-> "LLMError", rewrites |-> 1,
              extracted |-> FALSE, understanding |-> NoUnderstanding]
        ELSE IF \E i \in 1..Len(hits) : Iloc(Catalog, hits[i]).raised
        THEN [raised |-> TRUE, error |-> "IndexError",
              rewrites |-> IF need THEN 1 ELSE 0,
              extracted |-> FALSE, understanding |-> NoUnderstanding]
        ELSE IF ~ex.ok
        THEN [raised |-> TRUE, error |-> "LLMError",
              rewrites |-> IF need THEN 1 ELSE 0,
              extracted |-> FALSE, understanding |-> NoUnderstanding]
        ELSE IF ee.raised
        THEN [raised |-> TRUE, error |-> "JSONDecodeError",
              rewrites |-> IF need THEN 1 ELSE 0,
              extracted |-> TRUE, understanding |-> NoUnderstanding]
        ELSE [raised |-> FALSE, error |-> "none",
              rewrites |-> IF need THEN 1 ELSE 0,
              extracted |-> TRUE,
              understanding |->
                 [question |-> rewritten,
                  entities |-> [i \in 1..Len(ee.entities) |->
                                   [entity_value |-> ee.entities[i].entity_value]],
                  relevant_tables |->
                      TablesOfEntities(ee.entities, RelevantTables(hits))]]

----------------------------------------------------------------------------
(* DatabaseClient.execute under retry_on_error (utils/database.py) *)

RetryOnErrorSwallow(fails) ==
    [ok |-> TRUE, attempts |-> Min(fails + 1, max_retries),
     error |-> "none", data |-> IF fails >= max_retries THEN "empty" ELSE "rows"]

\* the wrapper's outcome when the first `fails` attempts fail: the result of
\* the first attempt that succeeds, the last error after max_retries failures
RetryOnError(fails) ==
    IF fails >= max_retries
    THEN [ok |-> FALSE, attempts |-> max_retries, error |-> "DataBaseError",
          data |-> "none"]
    ELSE [ok |-> TRUE, attempts |-> fails + 1, error |-> "none", data |-> "rows"]

----------------------------------------------------------------------------
(* AnswerGenerator.generate_answer (agents/answer_generator.py) *)

RECURSIVE LStrip(_)
LStrip(s) == IF s # <<>> /\ Head(s) = Space THEN LStrip(Tail(s)) ELSE s

RECURSIVE RStrip(_)
RStrip(s) ==
    IF s # <<>> /\ s[Len(s)] = Space THEN RStrip(SubSeq(s, 1, Len(s) - 1)) ELSE s

\* str.strip()
Strip(s) == LStrip(RStrip(s))

\* the lazy group (.*?) followed by (?:\s*$|\s): the text up to the first
\* whitespace, or up to the end
UpToSpace(s) == SplitFirst(s, Space)

\* re.search(r'RESPONSE:\s*(.*?)(?:\s*$|\s)', content, re.DOTALL) on the
\* stripped content; "" when there is no RESPONSE section
GenerateAnswer(content) ==
    LET c == Strip(content)
        i == FirstIndex(c, ResponseTag)
    IN  IF i = 0 THEN <<>>
        ELSE Strip(UpToSpace(LStrip(SubSeq(c, i + 1, Len(c)))))

\* logger.warning("No RESPONSE section found in LLM output")
NoResponseSection(content) == FirstIndex(Strip(content), ResponseTag) = 0

\* def generate_answer(self, data, sql, understanding)
GenerateAnswerParams == << "data", "sql", "understanding" >>
\* self.answer_agent.generate_answer(data, understanding)
GenerateAnswerArgs == << "data", "understanding" >>
\* a call binds when every required positional parameter gets an argument
Binds(args, params) == Len(args) = Len(params)

ContentPartial == << ResponseTag, Space, "partial" >>
ContentFinal == << ResponseTag, Space, "done", Sentinel, "trailing" >>
ContentSpaced == << ResponseTag, Space, "partial", Space, "info", Sentinel, "trailing" >>

\* replies of the generative service to the answer requests of iterations 1..3
Scripts ==
    { << ContentPartial, ContentPartial, ContentPartial >>,
      << ContentFinal, ContentSpaced, ContentPartial >> }

HasSentinel(a) == \E i \in 1..Len(a) : a[i] = Sentinel

----------------------------------------------------------------------------
(* TableVectorStore (utils/vector_store.py). An embedding is a point on a    *)
(* line; scores are exact fractions num/den with a positive denominator.     *)

\* values of encode(text)
Vectors == { 0, 1, 2 }

\* faiss.IndexFlatL2: the squared Euclidean distance
Distance(u, v) == (u - v) * (u - v)

\* what index.search reports in the places it has no entry for: label -1 at a
\* distance larger than that of every indexed vector
NoLabel == 0 - 1
FltMax == 1000000

Rational(n, d) == [num |-> n, den |-> d]

\* a >= b
Geq(a, b) == a.num * b.den >= b.num * a.den

ScoreOneMinus(d) == Rational(1 - d, 1)

\* scores = 1 / (1 + distances[0])
Score(d) == Rational(1, 1 + d)

\* threshold: float = 0.6
DefaultThreshold == Rational(3, 5)
\* thresholds a caller passes
Thresholds == { Rational(0, 1), Rational(1, 2), DefaultThreshold, Rational(1, 1) }

\* self.vector_store.search(rewritten_question, k=25)
ParseK == 25

\* the orders in which n positions 0..n-1 can be listed
Orderings(n) ==
    { p \in [1..n -> 0..(n - 1)] : \A i, j \in 1..n : i # j => p[i] # p[j] }

\* the order index.search returns the entries in: nearest first, entries at
\* the same distance by ascending label (the flat index keeps its results in
\* a heap ordered by distance, then label)
Rankings(ix, qv) ==
    { p \in Orderings(Len(ix)) :
        \A i \in 1..(Len(ix) - 1) :
            \/ Distance(ix[p[i] + 1], qv) < Distance(ix[p[i + 1] + 1], qv)
            \/ /\ Distance(ix[p[i] + 1], qv) = Distance(ix[p[i + 1] + 1], qv)
               /\ p[i] < p[i + 1] }

\* the k (distance, label) pairs of one search, filled up when the index holds
\* fewer than k entries
Candidates(ix, qv, k, p) ==
    [i \in 1..k |->
        IF i <= Len(ix)
        THEN [idx |-> p[i], distance |-> Distance(ix[p[i] + 1], qv)]
        ELSE [idx |-> NoLabel, distance |-> FltMax]]

\* distances, indices = self.index.search(query_vector, k)
IndexSearch(ix, qv, k) == { Candidates(ix, qv, k, p) : p \in Rankings(ix, qv) }

SearchHitsStrict(cands, th) ==
    SelectSeq([i \in 1..Len(cands) |->
                  [index |-> cands[i].idx, score |-> Score(cands[i].distance)]],
              LAMBDA h : ~Geq(th, h.score))

\* for idx, score in zip(indices[0], scores): if score >= threshold: append
SearchHits(cands, th) ==
    SelectSeq([i \in 1..Len(cands) |->
                  [index |-> cands[i].idx, score |-> Score(cands[i].distance)]],
              LAMBDA h : Geq(h.score, th))

\* TableVectorStore.search: an exception raised inside (encode, index.search)
\* is logged and the empty list is returned
Search(cands, th, fails) ==
    IF fails THEN [raised |-> FALSE, hits |-> <<>>]
    ELSE [raised |-> FALSE, hits |-> SearchHits(cands, th)]

\* the vectors of the data dictionary's representation texts
StartupVectors == [i \in 1..Len(Catalog) |-> i - 1]

NoSearch == [called |-> FALSE, query |-> 0, k |-> 0, threshold |-> Rational(0, 1),
             failed |-> FALSE, raised |-> FALSE, candidates |-> <<>>, hits |-> <<>>]

NoParsed == [called |-> FALSE, hits |-> <<>>,
             r |-> [raised |-> FALSE, error |-> "none", rewrites |-> 0,
                    extracted |-> FALSE, understanding |-> NoUnderstanding]]

----------------------------------------------------------------------------
(* FinanceQASystem.process_question (core/system.py) *)

\* contexts a caller passes as context=...: None, an empty QuestionContext, or
\* the one process_single_tid builds from the previous answers
SuppliedContexts ==
    { NoneContext,
      EmptyContext,
      [isNone |-> FALSE,
       history |-> << [human |-> "q1", assistant |-> <<"done">>] >>,
       metadata |-> <<>>] }

UsesStoreAlways(supplied) == TRUE

\* if context is None: context = await self.dialogue_manager.get_context(...)
UsesStore(supplied) == supplied.isNone

\* what is observed of a call: the context the caller supplied, the number of
\* get_context calls, each parse (its context, the extraction reply and its
\* outcome), the execution attempts, the answers synthesized, the turns the
\* call appended, whether a failure was written to the log (logger.error of
\* process_question, logger.warning of generate_answer)
NewLog == [supplied |-> NoneContext, storeReads |-> 0, parses |-> <<>>,
           attempts |-> 0, executionFailed |-> FALSE, answers |-> 0,
           collaboratorFailed |-> FALSE, appended |-> 0,
           failureLogged |-> FALSE]

NoApiCtx == [called |-> FALSE, qid |-> <<>>, raised |-> FALSE, ctx |-> EmptyContext]

Ended == { "returned", "raised" }

\* the worker threads of the pool, before any of them runs
Workers == { "w1", "w2" }
IdleWorker == [pc |-> "idle", qid |-> <<>>, dialogue |-> 0, turns |-> 0,
               sliced |-> <<>>, stamp |-> 0]

InitWorkers ==
    /\ dialogueRefs = <<>>
    /\ dialogueObjs = <<>>
    /\ turnLists = <<>>
    /\ workers = [w \in Workers |-> IdleWorker]

\* DialogueManager(max_history=H, context_window=W)
InitDialogueManager(H, W) ==
    /\ max_history = H
    /\ context_window = W
    /\ dialogues = <<>>
    /\ clock = 0
    /\ apiCtx = NoApiCtx

\* no process_question call has been made
InitProcessQuestion ==
    /\ pc = "idle"
    /\ question_id = <<>>
    /\ question = ""
    /\ context = NoneContext
    /\ iter = 0
    /\ understanding = NoUnderstanding
    /\ sql = ""
    /\ data = "none"
    /\ answer = <<>>
    /\ error = "none"
    /\ script = <<>>
    /\ log = NewLog

\* TableVectorStore(texts): one vector per text, in the order of the texts
InitVectorStore(vectors) ==
    /\ index = vectors
    /\ count = Len(vectors)
    /\ searched = NoSearch
    /\ parsed = NoParsed

\* no extraction made yet
NoGenerated == [called |-> FALSE, content |-> <<>>, answer |-> <<>>]

InitGenerate == generated = NoGenerated

\* no collaborator call made yet
NoCall == [pc |-> "idle", kind |-> "none", configured |-> 0, limit |-> 0,
           attempt |-> 0, timeout |-> 0, silent |-> FALSE, errors |-> <<>>,
           waits |-> <<>>, error |-> "none"]

InitCall == call = NoCall

\* process_all_tids not called yet
InitRun ==
    /\ tid_groups = <<>>
    /\ futures = <<>>
    /\ processed_results = <<>>
    /\ run_pc = "idle"

Init ==
    /\ \E H \in 0..MaxHistoryCfg, W \in 0..MaxWindowCfg : InitDialogueManager(H, W)
    /\ InitWorkers
    /\ InitProcessQuestion
    /\ InitVectorStore(StartupVectors)
    /\ InitGenerate
    /\ InitCall
    /\ InitRun

ApiGetContextCreates(qid) ==
    /\ apiCtx' = [called |-> TRUE, qid |-> qid,
                  raised |-> GetContext(dialogues, qid, context_window).raised,
                  ctx |-> GetContext(dialogues, qid, context_window).ctx]
    /\ dialogues' = [x \in (DOMAIN dialogues) \cup {DialogueIdOf(qid)} |->
                        IF x \in DOMAIN dialogues THEN dialogues[x] ELSE <<>>]
    /\ UNCHANGED <<max_history, context_window, clock>>
    /\ UNCHANGED pqVars
    /\ UNCHANGED extVars

\* a direct call of DialogueManager.get_context
ApiGetContext(qid) ==
    /\ apiCtx' = [called |-> TRUE, qid |-> qid,
                  raised |-> GetContext(dialogues, qid, context_window).raised,
                  ctx |-> GetContext(dialogues, qid, context_window).ctx]
    /\ UNCHANGED <<max_history, context_window, dialogues, clock>>
    /\ UNCHANGED pqVars
    /\ UNCHANGED extVars

\* a direct call of DialogueManager.update_history
ApiUpdateHistory(qid, q, a) ==
    /\ clock < MaxAppends
    /\ clock' = clock + 1
    /\ dialogues' = UpdateHistory(dialogues, qid, q, a, clock + 1, max_history)
    /\ UNCHANGED <<max_history, context_window, apiCtx>>
    /\ UNCHANGED pqVars
    /\ UNCHANGED extVars

\* process_question entry and step 1: the context is fetched from the store
\* only when the caller supplied none
StartProcessQuestion(qid, q, supplied, sc) ==
    LET r == IF UsesStore(supplied)
             THEN GetContext(dialogues, qid, context_window)
             ELSE [raised |-> FALSE, ctx |-> supplied]
    IN  /\ pc = "idle"
        /\ question_id' = qid
        /\ question' = q
        /\ script' = sc
        /\ context' = r.ctx
        /\ iter' = 0
        /\ answer' = <<>>
        /\ understanding' = NoUnderstanding
        /\ sql' = ""
        /\ data' = "none"
        /\ log' = [NewLog EXCEPT !.supplied = supplied,
                                  !.storeReads = IF UsesStore(supplied) THEN 1 ELSE 0,
                                  !.failureLogged = r.raised]
        /\ pc' = IF r.raised THEN "raised" ELSE "understand"
        /\ error' = IF r.raised THEN "KeyError" ELSE "none"
        /\ UNCHANGED dmVars
        /\ UNCHANGED extVars

\* step 2: understanding = await self.parser_agent.parse(question, context)
Understand ==
    /\ pc = "understand"
    /\ \E rw \in RewriteOutcomes, hits \in HitLists, ex \in ExtractionOutcomes :
         LET r == Parse(question, context, rw, hits, ex)
         IN  /\ log' = [log EXCEPT
                          !.parses = Append(@, [ctx |-> context, out |-> ex.out,
                                                r |-> r]),
                          !.collaboratorFailed = @ \/ (r.raised /\ r.error = "LLMError"),
                          !.failureLogged = @ \/ r.raised]
             /\ understanding' = r.understanding
             /\ pc' = IF r.raised THEN "raised" ELSE "generate_query"
             /\ error' = r.error
    /\ UNCHANGED <<question_id, question, context, iter, sql, data, answer, script>>
    /\ UNCHANGED dmVars
    /\ UNCHANGED extVars

\* step 3: sql = await self.sql_agent.generate_sql(question, understanding);
\* the stripped reply is the query, a failed request raises LLMError
GenerateQuery ==
    /\ pc = "generate_query"
    /\ \/ /\ pc' = "raised"
          /\ error' = "LLMError"
          /\ log' = [log EXCEPT !.collaboratorFailed = TRUE,
                                !.failureLogged = TRUE]
          /\ UNCHANGED sql
       \/ /\ \E s \in Sqls : sql' = s
          /\ pc' = "execute"
          /\ UNCHANGED <<error, log>>
    /\ UNCHANGED <<question_id, question, context, iter, understanding, data, answer,
                   script>>
    /\ UNCHANGED dmVars
    /\ UNCHANGED extVars

\* step 4: data = self.db.execute(sql)
Execute ==
    /\ pc = "execute"
    /\ \E fails \in 0..max_retries :
         LET r == RetryOnError(fails)
         IN  /\ data' = r.data
             /\ error' = r.error
             /\ pc' = IF r.ok THEN "synthesize" ELSE "raised"
             /\ log' = [log EXCEPT !.attempts = r.attempts,
                                   !.executionFailed = fails >= max_retries,
                                   !.collaboratorFailed = @ \/ fails >= max_retries,
                                   !.failureLogged = @ \/ ~r.ok]
    /\ UNCHANGED <<question_id, question, context, iter, understanding, sql, answer,
                   script>>
    /\ UNCHANGED dmVars
    /\ UNCHANGED extVars

SynthesizeAnswerSwallow ==
    /\ pc = "synthesize"
    /\ pc' = "returned"
    /\ UNCHANGED <<error, answer, iter, log, dialogues, clock>>
    /\ UNCHANGED <<question_id, question, context, understanding, sql, data, script>>
    /\ UNCHANGED <<max_history, context_window, apiCtx>>
    /\ UNCHANGED extVars

\* steps 5 and 6: the call of generate_answer, the completion check, the
\* update of the dialogue history and the loop back or the return; an
\* exception is logged and raised again
SynthesizeAnswer ==
    /\ pc = "synthesize"
    /\ IF ~Binds(GenerateAnswerArgs, GenerateAnswerParams)
       THEN /\ pc' = "raised"
            /\ error' = "TypeError"
            /\ log' = [log EXCEPT !.failureLogged = TRUE]
            /\ UNCHANGED <<answer, iter, dialogues, clock>>
       ELSE LET a == GenerateAnswer(script[iter + 1])
            IN  IF HasSentinel(a)
                THEN /\ answer' = SplitFirst(a, Sentinel)
                     /\ pc' = "returned"
                     /\ log' = [log EXCEPT !.answers = @ + 1,
                                           !.failureLogged = @ \/ NoResponseSection(script[iter + 1])]
                     /\ UNCHANGED <<error, iter, dialogues, clock>>
                ELSE /\ answer' = a
                     /\ dialogues' = UpdateHistory(dialogues, question_id, question,
                                                   a, clock + 1, max_history)
                     /\ clock' = clock + 1
                     /\ iter' = iter + 1
                     /\ log' = [log EXCEPT !.answers = @ + 1,
                                           !.appended = @ + 1,
                                           !.failureLogged = @ \/ NoResponseSection(script[iter + 1])]
                     /\ pc' = IF iter + 1 < max_iteration THEN "understand"
                                                          ELSE "returned"
                     /\ UNCHANGED error
    /\ UNCHANGED <<question_id, question, context, understanding, sql, data, script>>
    /\ UNCHANGED <<max_history, context_window, apiCtx>>
    /\ UNCHANGED extVars

\* the dialogue store used on its own
NextDM ==
    \/ \E qid \in QuestionIds : ApiGetContext(qid)
    \/ \E qid \in QuestionIds, q \in Questions, a \in ApiAnswers :
          ApiUpdateHistory(qid, q, a)

SpecDM == Init /\ [][NextDM]_vars

\* earlier turns are stored, then questions are processed one call at a time
Next ==
    \/ \E qid \in QuestionIds, q \in Questions, a \in ApiAnswers :
          pc = "idle" /\ ApiUpdateHistory(qid, q, a)
    \/ \E qid \in QuestionIds, q \in Questions, supplied \in SuppliedContexts,
          sc \in Scripts : StartProcessQuestion(qid, q, supplied, sc)
    \/ Understand
    \/ GenerateQuery
    \/ Execute
    \/ SynthesizeAnswer

Spec == Init /\ [][Next]_vars

----------------------------------------------------------------------------
(* update_history called from the worker threads of process_all_tids: each   *)
(* submitted task runs asyncio.run(...) on its own thread of the pool, all   *)
(* on the one DialogueManager. The method takes no lock; a thread switch can *)
(* fall between any two of its steps.                                        *)

\* self.dialogues[d].turns as stored now
StoredTurns(d) == turnLists[dialogueObjs[dialogueRefs[d]]]

\* a worker thread enters update_history(question_id, question, answer)
WorkerCall(w, qid) ==
    /\ workers[w].pc = "idle"
    /\ workers' = [workers EXCEPT ![w] = [IdleWorker EXCEPT !.pc = "lookup",
                                                             !.qid = qid]]
    /\ UNCHANGED <<dialogueRefs, dialogueObjs, turnLists>>
    /\ UNCHANGED <<dmVars, pqVars, vsVars, gaVars, rtVars, runVars>>

\* dialogue = self.dialogues.get(dialogue_id) and the test `if not dialogue`
WorkerLookup(w) ==
    LET d == DialogueIdOf(workers[w].qid)
    IN  /\ workers[w].pc = "lookup"
        /\ workers' = [workers EXCEPT
                         ![w].dialogue = IF d \in DOMAIN dialogueRefs
                                         THEN dialogueRefs[d] ELSE 0,
                         ![w].pc = IF d \in DOMAIN dialogueRefs
                                   THEN "load" ELSE "create"]
        /\ UNCHANGED <<dialogueRefs, dialogueObjs, turnLists>>
        /\ UNCHANGED <<dmVars, pqVars, vsVars, gaVars, rtVars, runVars>>

\* dialogue = Dialogue(dialogue_id=dialogue_id)
\* self.dialogues[dialogue_id] = dialogue
WorkerCreate(w) ==
    LET d == DialogueIdOf(workers[w].qid)
    IN  /\ workers[w].pc = "create"
        /\ turnLists' = Append(turnLists, <<>>)
        /\ dialogueObjs' = Append(dialogueObjs, Len(turnLists) + 1)
        /\ dialogueRefs' = [x \in (DOMAIN dialogueRefs) \cup {d} |->
                               IF x = d THEN Len(dialogueObjs) + 1
                               ELSE dialogueRefs[x]]
        /\ workers' = [workers EXCEPT ![w].dialogue = Len(dialogueObjs) + 1,
                                      ![w].pc = "load"]
        /\ UNCHANGED <<dmVars, pqVars, vsVars, gaVars, rtVars, runVars>>

\* dialogue.turns.append(...): the list object is read from the attribute
WorkerLoadTurns(w) ==
    /\ workers[w].pc = "load"
    /\ workers' = [workers EXCEPT ![w].turns = dialogueObjs[workers[w].dialogue],
                                  ![w].pc = "append"]
    /\ UNCHANGED <<dialogueRefs, dialogueObjs, turnLists>>
    /\ UNCHANGED <<dmVars, pqVars, vsVars, gaVars, rtVars, runVars>>

\* dialogue.turns.append(DialogueTurn(...)): the turn is appended to the list
\* object that was read
WorkerAppend(w) ==
    /\ workers[w].pc = "append"
    /\ \E q \in Questions, a \in ApiAnswers :
         turnLists' = [turnLists EXCEPT ![workers[w].turns] =
                          Append(@, Turn(workers[w].qid, q, a, clock + 1))]
    /\ clock' = clock + 1
    /\ workers' = [workers EXCEPT ![w].stamp = clock + 1, ![w].pc = "check"]
    /\ UNCHANGED <<dialogueRefs, dialogueObjs>>
    /\ UNCHANGED <<max_history, context_window, dialogues, apiCtx>>
    /\ UNCHANGED <<pqVars, vsVars, gaVars, rtVars, runVars>>

\* if len(dialogue.turns) > self.max_history
WorkerCheckLen(w) ==
    /\ workers[w].pc = "check"
    /\ workers' = [workers EXCEPT
                     ![w].pc = IF Len(turnLists[dialogueObjs[workers[w].dialogue]])
                                  > max_history
                               THEN "slice" ELSE "done"]
    /\ UNCHANGED <<dialogueRefs, dialogueObjs, turnLists>>
    /\ UNCHANGED <<dmVars, pqVars, vsVars, gaVars, rtVars, runVars>>

\* the right-hand side dialogue.turns[-self.max_history:], a new list
WorkerSlice(w) ==
    /\ workers[w].pc = "slice"
    /\ workers' = [workers EXCEPT
                     ![w].sliced = LastSlice(turnLists[dialogueObjs[workers[w].dialogue]],
                                             max_history),
                     ![w].pc = "assign"]
    /\ UNCHANGED <<dialogueRefs, dialogueObjs, turnLists>>
    /\ UNCHANGED <<dmVars, pqVars, vsVars, gaVars, rtVars, runVars>>

\* dialogue.turns = <the new list>
WorkerAssign(w) ==
    /\ workers[w].pc = "assign"
    /\ turnLists' = Append(turnLists, workers[w].sliced)
    /\ dialogueObjs' = [dialogueObjs EXCEPT ![workers[w].dialogue] = Len(turnLists) + 1]
    /\ workers' = [workers EXCEPT ![w].pc = "done"]
    /\ UNCHANGED dialogueRefs
    /\ UNCHANGED <<dmVars, pqVars, vsVars, gaVars, rtVars, runVars>>

NextMT ==
    \/ \E w \in Workers, qid \in QuestionIds : WorkerCall(w, qid)
    \/ \E w \in Workers : WorkerLookup(w)
    \/ \E w \in Workers : WorkerCreate(w)
    \/ \E w \in Workers : WorkerLoadTurns(w)
    \/ \E w \in Workers : WorkerAppend(w)
    \/ \E w \in Workers : WorkerCheckLen(w)
    \/ \E w \in Workers : WorkerSlice(w)
    \/ \E w \in Workers : WorkerAssign(w)

SpecMT == Init /\ [][NextMT]_vars

----------------------------------------------------------------------------
(* The vector store used on its own, and the understanding step over it.   *)
(* search and parse only read the store, so their outcome depends on the     *)
(* index alone: each is observed from a state that holds no earlier outcome  *)
(* (add_texts clears the observation).                                       *)

NoOutcomeHeld == ~searched.called /\ ~parsed.called

\* a direct call of TableVectorStore.search(query, k, threshold)
SearchCall(qv, k, th, fails) ==
    /\ NoOutcomeHeld
    /\ \E cands \in IndexSearch(index, qv, k) :
         searched' = [called |-> TRUE, query |-> qv, k |-> k, threshold |-> th,
                      failed |-> fails,
                      raised |-> Search(cands, th, fails).raised,
                      candidates |-> IF fails THEN <<>> ELSE cands,
                      hits |-> Search(cands, th, fails).hits]
    /\ parsed' = NoParsed
    /\ UNCHANGED <<index, count>>
    /\ UNCHANGED <<dmVars, pqVars, mtVars, gaVars, rtVars, runVars>>

\* TableVectorStore.add_texts(texts): the new vectors are added to the index
\* and metadata.count grows; the data dictionary is not touched
AddTexts(vs) ==
    /\ Len(index) + Len(vs) <= MaxIndex
    /\ index' = index \o vs
    /\ count' = count + Len(vs)
    /\ searched' = NoSearch
    /\ parsed' = NoParsed
    /\ UNCHANGED <<dmVars, pqVars, mtVars, gaVars, rtVars, runVars>>

\* ParserAgent.parse(question, None): the search with k=25 and the default
\* threshold, the resolution of the hits against the data dictionary, the
\* entity extraction and the understanding built from them
ParseCall(qv, ex) ==
    /\ NoOutcomeHeld
    /\ \E cands \in IndexSearch(index, qv, ParseK), fails \in BOOLEAN,
          q \in Questions, rw \in RewriteOutcomes :
         LET found == Search(cands, DefaultThreshold, fails).hits
             hits  == [i \in 1..Len(found) |-> found[i].index]
         IN  parsed' = [called |-> TRUE, hits |-> hits,
                        r |-> Parse(q, NoneContext, rw, hits, ex)]
    /\ searched' = NoSearch
    /\ UNCHANGED <<index, count>>
    /\ UNCHANGED <<dmVars, pqVars, mtVars, gaVars, rtVars, runVars>>

InitVS ==
    /\ InitDialogueManager(MaxHistoryCfg, MaxWindowCfg)
    /\ InitWorkers
    /\ InitProcessQuestion
    /\ \E vectors \in [1..Len(Catalog) -> Vectors] : InitVectorStore(vectors)
    /\ InitGenerate
    /\ InitCall
    /\ InitRun

NextVS ==
    \/ \E qv \in Vectors, k \in 1..MaxK, th \in Thresholds, fails \in BOOLEAN :
          SearchCall(qv, k, th, fails)
    \/ \E v \in Vectors : AddTexts(<<v>>)
    \/ \E qv \in Vectors, ex \in ExtractionOutcomes : ParseCall(qv, ex)

SpecVS == InitVS /\ [][NextVS]_vars

----------------------------------------------------------------------------
(* AnswerGenerator.generate_answer used on its own: the extraction of the    *)
(* answer from a reply of the generative service.                            *)

\* the tokens of a reply: the RESPONSE marker, whitespace, a word, the sentinel
ContentTokens == { ResponseTag, Space, "partial", Sentinel }

\* the replies of the generative service
Contents == UNION { [1..n -> ContentTokens] : n \in 0..MaxContent }

\* content = response.content.strip(); the RESPONSE extraction
GenerateAnswerCall(content) ==
    /\ generated' = [called |-> TRUE, content |-> content,
                     answer |-> GenerateAnswer(content)]
    /\ UNCHANGED <<dmVars, pqVars, mtVars, vsVars, rtVars, runVars>>

InitGA ==
    /\ InitDialogueManager(MaxHistoryCfg, MaxWindowCfg)
    /\ InitWorkers
    /\ InitProcessQuestion
    /\ InitVectorStore(StartupVectors)
    /\ InitGenerate
    /\ InitCall
    /\ InitRun

NextGA == \E content \in Contents : GenerateAnswerCall(content)

SpecGA == InitGA /\ [][NextGA]_vars

----------------------------------------------------------------------------
(* The two retry wrappers around the collaborator calls: retry_on_error      *)
(* around DatabaseClient.execute (utils/database.py) and tenacity's @retry   *)
(* around LLMClient.generate (agents/llm_client.py). One call is followed    *)
(* attempt by attempt; waits are in seconds.                                 *)

CallKinds == { "llm", "db" }

\* no timeout is given to the request
NoTimeout == 0

\* the timeout of one attempt: asyncio.wait_for(..., timeout=timeout) and
\* create(..., timeout=timeout) for the generative service;
\* requests.post(url, headers=headers, json=data) for the database
TimeoutOf(kind) == IF kind = "llm" THEN llm_timeout ELSE NoTimeout

\* the attempts a wrapper makes: range(max_retries) for the database,
\* stop_after_attempt(3) for the generative service (self.max_retries is
\* stored and not read)
AttemptLimit(kind, configured) ==
    IF kind = "llm" THEN stop_after_attempt ELSE configured

\* wait_time = delay * (attempt + 1), attempt counted from 0
DbWait(attempt0) == delay * (attempt0 + 1)

\* wait_exponential: multiplier * 2 ** (attempt_number - 1), kept within
\* [min, max]
TenacityWait(attempt_number) ==
    Max(wait_min, Min(wait_multiplier * 2 ^ (attempt_number - 1), wait_max))

\* the wait after the failed attempt number n (counted from 1)
WaitAfter(kind, n) == IF kind = "llm" THEN TenacityWait(n) ELSE DbWait(n - 1)

\* the errors an attempt can end with: execute turns every exception into
\* DataBaseError, generate into LLMError
FailuresOf(kind) == IF kind = "llm" THEN { "LLMError" } ELSE { "DataBaseError" }

\* the wrapped function is called: the first attempt is in flight
StartCall(kind, configured) ==
    /\ call.pc = "idle"
    /\ call' = [NoCall EXCEPT !.pc = "waiting", !.kind = kind,
                              !.configured = configured,
                              !.limit = AttemptLimit(kind, configured),
                              !.attempt = 1,
                              !.timeout = TimeoutOf(kind)]
    /\ UNCHANGED <<dmVars, pqVars, mtVars, vsVars, gaVars, runVars>>

\* the collaborator stops responding during the attempt in flight
CollaboratorSilent ==
    /\ call.pc = "waiting"
    /\ ~call.silent
    /\ call' = [call EXCEPT !.silent = TRUE]
    /\ UNCHANGED <<dmVars, pqVars, mtVars, vsVars, gaVars, runVars>>

\* the end of a failed attempt: the next wait, or the last error is raised
AfterFailure(e) ==
    IF call.attempt < call.limit
    THEN [call EXCEPT !.pc = "sleeping", !.silent = FALSE,
                      !.errors = Append(@, e),
                      !.waits = Append(@, WaitAfter(call.kind, call.attempt))]
    ELSE [call EXCEPT !.pc = "raised", !.silent = FALSE,
                      !.errors = Append(@, e), !.error = e]

\* the collaborator answers the attempt in flight
AttemptReturns ==
    /\ call.pc = "waiting"
    /\ ~call.silent
    /\ call' = [call EXCEPT !.pc = "returned"]
    /\ UNCHANGED <<dmVars, pqVars, mtVars, vsVars, gaVars, runVars>>

\* the attempt in flight ends with an error of the collaborator
AttemptFails ==
    /\ call.pc = "waiting"
    /\ ~call.silent
    /\ \E e \in FailuresOf(call.kind) : call' = AfterFailure(e)
    /\ UNCHANGED <<dmVars, pqVars, mtVars, vsVars, gaVars, runVars>>

\* the timeout of the attempt in flight expires: asyncio.TimeoutError is
\* logged and raised again, and the wrapper treats it as any other exception
AttemptTimesOut ==
    /\ call.pc = "waiting"
    /\ call.silent
    /\ call.timeout # NoTimeout
    /\ call' = AfterFailure("TimeoutError")
    /\ UNCHANGED <<dmVars, pqVars, mtVars, vsVars, gaVars, runVars>>

\* the wait is over: the next attempt is in flight
NextAttempt ==
    /\ call.pc = "sleeping"
    /\ call' = [call EXCEPT !.pc = "waiting", !.attempt = @ + 1]
    /\ UNCHANGED <<dmVars, pqVars, mtVars, vsVars, gaVars, runVars>>

InitRT ==
    /\ InitDialogueManager(MaxHistoryCfg, MaxWindowCfg)
    /\ InitWorkers
    /\ InitProcessQuestion
    /\ InitVectorStore(StartupVectors)
    /\ InitGenerate
    /\ InitCall
    /\ InitRun

NextRT ==
    \/ \E kind \in CallKinds, configured \in 1..MaxRetriesCfg :
          StartCall(kind, configured)
    \/ CollaboratorSilent
    \/ AttemptReturns
    \/ AttemptFails
    \/ AttemptTimesOut
    \/ NextAttempt

SpecRT == InitRT /\ [][NextRT]_vars

----------------------------------------------------------------------------
(* QuestionProcessor (run.py): process_all_tids submits one task per TID     *)
(* group to a thread pool, each task runs process_single_tid over the        *)
(* questions of its group, and the results are awaited in submission order.  *)

\* the questions of TID group tid: groups have one or two questions
TeamOf(tid) ==
    [j \in 1..(1 + (tid % 2)) |-> [id |-> <<tid, Sep, j>>, question |-> "q1"]]

\* an input of n TID groups
DataOf(n) == [i \in 1..n |-> [tid |-> i, team |-> TeamOf(i)]]

\* the sizes of the inputs explored: a few small ones and the largest
GroupCounts == (0..3) \cup { MaxGroups }

\* data[:10]
Sliced(d) == SubSeq(d, 1, Min(Len(d), group_slice))

\* how a process_question call ends for the driver: a collaborator fails, or
\* the steps run up to the generate_answer call
ProcessQuestionEndings ==
    { "LLMError" } \cup
    (IF Binds(GenerateAnswerArgs, GenerateAnswerParams)
     THEN { "returned" } ELSE { "TypeError" })

\* f"处理失败: {str(e)}" (the failure text, then the error)
FailureAnswer(e) == << "failed: ", e >>

FailureEntryOnlyFailing(tid, questions, done, e) ==
    [tid |-> tid,
     team |-> << [id |-> questions[done + 1].id,
                  question |-> questions[done + 1].question,
                  answer |-> FailureAnswer(e)] >>]

\* the except branch of the await loop: one failure record per question of
\* the group (done: the number of questions answered before the failure)
FailureEntry(tid, questions, done, e) ==
    [tid |-> tid,
     team |-> [j \in 1..Len(questions) |->
                  [id |-> questions[j].id, question |-> questions[j].question,
                   answer |-> FailureAnswer(e)]]]

\* the task of a group as submitted: not picked by a pool thread yet
QueuedTask(item) ==
    [tid |-> item.tid, team |-> item.team, pc |-> "queued", done |-> 0,
     results |-> <<>>, history |-> <<>>, error |-> "none"]

Running == { i \in 1..Len(futures) : futures[i].pc = "running" }

\* process_all_tids(data): the submission loop
ProcessAllTids(n) ==
    /\ run_pc = "idle"
    /\ tid_groups' = DataOf(n)
    /\ futures' = [i \in 1..Len(Sliced(DataOf(n))) |-> QueuedTask(Sliced(DataOf(n))[i])]
    /\ processed_results' = <<>>
    /\ run_pc' = "awaiting"
    /\ UNCHANGED <<dmVars, pqVars, mtVars, vsVars, gaVars, rtVars>>

\* a free pool thread takes the oldest queued task and enters
\* process_single_tid: the first question is in flight
TaskStarts(i) ==
    /\ run_pc = "awaiting"
    /\ i \in 1..Len(futures)
    /\ futures[i].pc = "queued"
    /\ \A j \in 1..(i - 1) : futures[j].pc # "queued"
    /\ Cardinality(Running) < pool_max_workers
    /\ futures' = [futures EXCEPT ![i].pc = "running"]
    /\ UNCHANGED <<tid_groups, processed_results, run_pc>>
    /\ UNCHANGED <<dmVars, pqVars, mtVars, vsVars, gaVars, rtVars>>

\* the process_question call of the question in flight ends: its answer is
\* recorded and the next question is taken, or the exception ends the task
QuestionEnds(i) ==
    /\ i \in 1..Len(futures)
    /\ futures[i].pc = "running"
    /\ \E ending \in ProcessQuestionEndings :
         futures' = [futures EXCEPT ![i] =
            IF ending = "returned"
            THEN [@ EXCEPT
                    !.done = @ + 1,
                    !.results = Append(@, [id |-> futures[i].team[futures[i].done + 1].id,
                                           question |-> "q1",
                                           answer |-> <<>>]),
                    !.history = Append(@, [human |-> "q1", assistant |-> <<>>]),
                    !.pc = IF futures[i].done + 1 = Len(futures[i].team)
                           THEN "done" ELSE "running"]
            ELSE [@ EXCEPT !.pc = "raised", !.error = ending]]
    /\ UNCHANGED <<tid_groups, processed_results, run_pc>>
    /\ UNCHANGED <<dmVars, pqVars, mtVars, vsVars, gaVars, rtVars>>

\* result = await future, for the next future in submission order
AwaitFuture ==
    /\ run_pc = "awaiting"
    /\ Len(processed_results) < Len(futures)
    /\ LET f == futures[Len(processed_results) + 1]
       IN  /\ f.pc \in { "done", "raised" }
           /\ processed_results' =
                 Append(processed_results,
                        IF f.pc = "done"
                        THEN [tid |-> f.tid, team |-> f.results]
                        ELSE FailureEntry(f.tid, f.team, f.done, f.error))
    /\ UNCHANGED <<tid_groups, futures, run_pc>>
    /\ UNCHANGED <<dmVars, pqVars, mtVars, vsVars, gaVars, rtVars>>

\* return processed_results
ReturnResults ==
    /\ run_pc = "awaiting"
    /\ Len(processed_results) = Len(futures)
    /\ run_pc' = "returned"
    /\ UNCHANGED <<tid_groups, futures, processed_results>>
    /\ UNCHANGED <<dmVars, pqVars, mtVars, vsVars, gaVars, rtVars>>

InitRunSpec ==
    /\ InitDialogueManager(MaxHistoryCfg, MaxWindowCfg)
    /\ InitWorkers
    /\ InitProcessQuestion
    /\ InitVectorStore(StartupVectors)
    /\ InitGenerate
    /\ InitCall
    /\ InitRun

NextRun ==
    \/ \E n \in GroupCounts : ProcessAllTids(n)
    \/ \E i \in 1..group_slice : TaskStarts(i)
    \/ \E i \in 1..group_slice : QuestionEnds(i)
    \/ AwaitFuture
    \/ ReturnResults

SpecRun == InitRunSpec /\ [][NextRun]_vars

----------------------------------------------------------------------------
(* Claims *)

\* the answer text generate_answer extracts from the reply to iteration n
ScriptedAnswer(n) == GenerateAnswer(script[n])

\* a history entry carrying the answer a
Mentions(entry, a) ==
    IF "content" \in DOMAIN entry THEN entry.content = a ELSE entry.assistant = a

\* the extraction reply gives no structured result
Unparseable(out) == ~JsonFound(out) \/ ~JsonLoads(out) \/ ~ShapeOk(out)

\* C1: process_question performs at most max_iteration refinement cycles, and
\* a call whose collaborators do not fail and whose answer replies never carry
\* the sentinel returns the third (last) generated answer without raising.
C1_LoopTermination ==
    /\ iter <= max_iteration
    /\ Len(log.parses) <= max_iteration
    /\ (/\ pc \in Ended
        /\ ~log.collaboratorFailed
        /\ \A n \in 1..max_iteration : ~HasSentinel(ScriptedAnswer(n)))
       => (/\ pc = "returned"
           /\ answer = ScriptedAnswer(max_iteration))

\* C2: a call whose current iteration's answer text carries the sentinel
\* stops looping and returns exactly the text before the first sentinel.
C2_SentinelStripped ==
    (/\ pc \in Ended
     /\ ~log.collaboratorFailed
     /\ iter < max_iteration
     /\ HasSentinel(ScriptedAnswer(iter + 1)))
    => (/\ pc = "returned"
        /\ answer = SplitFirst(ScriptedAnswer(iter + 1), Sentinel))

\* C3: when the first iteration's answer lacks the sentinel the loop goes back
\* to the context fetch: a second understanding step runs, and the context it
\* is given holds the partial answer the first iteration appended.
C3_PartialAnswerFedBack ==
    (/\ pc \in Ended
     /\ ~log.collaboratorFailed
     /\ ~HasSentinel(ScriptedAnswer(1)))
    => (/\ Len(log.parses) >= 2
        /\ \E i \in 1..Len(log.parses[2].ctx.history) :
              Mentions(log.parses[2].ctx.history[i], ScriptedAnswer(1)))

\* C4: once query execution has failed (every retry used up) the call has
\* raised the execution error: no answer was synthesized for the iteration,
\* no further iteration ran and nothing is returned.
C4_ExecutionFailureRaises ==
    log.executionFailed
    => (/\ pc = "raised"
        /\ error = "DataBaseError"
        /\ log.attempts = max_retries
        /\ log.answers = iter
        /\ Len(log.parses) = iter + 1)

C4_Witness ==
    /\ log.executionFailed
    /\ pc = "raised"
    /\ log.attempts = max_retries

\* C5: an entity-extraction reply that cannot be parsed (no JSON found,
\* invalid JSON, wrong shape) makes the understanding step yield an empty
\* entity list without raising, and the iteration goes on to query generation.
C5_UnparseableGivesEmptyEntities ==
    \A i \in 1..Len(log.parses) :
        (log.parses[i].r.extracted /\ Unparseable(log.parses[i].out))
        => (/\ ~log.parses[i].r.raised
            /\ log.parses[i].r.understanding.entities = <<>>
            /\ (i = Len(log.parses) =>
                  /\ pc \in {"generate_query", "execute", "synthesize"} \cup Ended
                  /\ pc = "raised" => error \in {"LLMError", "DataBaseError", "TypeError"}
                  /\ pc = "generate_query" => understanding.entities = <<>>))

C5_Witness ==
    /\ pc = "generate_query"
    /\ Len(log.parses) = 1
    /\ JsonFound(log.parses[1].out)
    /\ ~JsonLoads(log.parses[1].out)
    /\ understanding.entities = <<>>

\* C6: a parse whose context has an empty history makes no rewrite request and
\* uses the question text unchanged; a rewrite request is made only for a
\* non-empty history.
C6_RewriteOnlyWithHistory ==
    \A i \in 1..Len(log.parses) :
        /\ (log.parses[i].ctx.isNone \/ log.parses[i].ctx.history = <<>>)
           => (/\ log.parses[i].r.rewrites = 0
               /\ ~log.parses[i].r.raised
                  => log.parses[i].r.understanding.question = question)
        /\ log.parses[i].r.rewrites > 0 => log.parses[i].ctx.history # <<>>

C6_Witness ==
    /\ pc = "generate_query"
    /\ Len(log.parses) = 1
    /\ ~log.parses[1].ctx.isNone
    /\ log.parses[1].ctx.history = <<>>
    /\ log.parses[1].r.rewrites = 0
    /\ understanding.question = question

\* C7: with a caller-supplied context, get_context is never called, every
\* understanding step is given the supplied context, and the fetch step
\* leaves the dialogue store as it was.
C7_SuppliedContextTakesPrecedence ==
    /\ [](( pc # "idle" /\ ~log.supplied.isNone )
          => (/\ log.storeReads = 0
              /\ context = log.supplied
              /\ \A i \in 1..Len(log.parses) : log.parses[i].ctx = log.supplied))
    /\ [][(pc = "idle" /\ pc' # "idle") => dialogues' = dialogues]_vars

C7_Witness ==
    /\ pc = "generate_query"
    /\ ~log.supplied.isNone
    /\ log.supplied.history # <<>>
    /\ DialogueIdOf(question_id) \in DOMAIN dialogues
    /\ log.storeReads = 0
    /\ log.parses[1].ctx = log.supplied

\* C8: get_context for a question id whose dialogue is not stored returns a
\* context with an empty history and does not raise.
C8_UnknownDialogueEmptyContext ==
    (apiCtx.called /\ DialogueIdOf(apiCtx.qid) \notin DOMAIN dialogues)
    => (/\ ~apiCtx.raised
        /\ apiCtx.ctx.history = <<>>)

C8_Witness ==
    /\ apiCtx.called
    /\ DialogueIdOf(apiCtx.qid) \notin DOMAIN dialogues
    /\ dialogues # <<>>
    /\ apiCtx.ctx.history = <<>>

\* C9: for every configured context_window W >= 0, get_context returns at most
\* W history entries, and exactly W once the dialogue holds more than W turns.
C9_ContextWindow ==
    apiCtx.called
    => (/\ Len(apiCtx.ctx.history) <= context_window
        /\ (apiCtx.ctx.history # <<>> /\ apiCtx.ctx.metadata.turn_count > context_window)
           => Len(apiCtx.ctx.history) = context_window)

\* C10: for every configured max_history >= 0, each dialogue holds at most
\* max_history turns, the most recently appended ones in append order.
C10_HistoryBounded ==
    \A d \in DOMAIN dialogues :
        /\ Len(dialogues[d]) <= max_history
        /\ \A i \in 1..(Len(dialogues[d]) - 1) :
              dialogues[d][i].timestamp < dialogues[d][i + 1].timestamp

\* C11: get_context and update_history derive the dialogue id from a question
\* id by the same rule, so every stored turn lies under the id its question id
\* gives; an update_history call changes only the dialogue of its question id
\* (every other dialogue is left as it was) and does not change what
\* get_context returns for a question id of a different dialogue.
C11_DialogueIsolation ==
    /\ \A d \in DOMAIN dialogues : \A i \in 1..Len(dialogues[d]) :
          DialogueIdOf(dialogues[d][i].question_id) = d
    /\ apiCtx.called =>
          \A i \in 1..Len(apiCtx.ctx.history) :
             \E j \in 1..Len(dialogues[DialogueIdOf(apiCtx.qid)]) :
                IF apiCtx.ctx.history[i].role = "human"
                THEN apiCtx.ctx.history[i].content
                        = dialogues[DialogueIdOf(apiCtx.qid)][j].question
                ELSE apiCtx.ctx.history[i].content
                        = dialogues[DialogueIdOf(apiCtx.qid)][j].answer
    /\ \A qidA \in QuestionIds, q \in Questions, a \in ApiAnswers :
          LET after == UpdateHistory(dialogues, qidA, q, a, clock + 1, max_history)
          IN  /\ DOMAIN after = (DOMAIN dialogues) \cup {DialogueIdOf(qidA)}
              /\ \A d \in DOMAIN dialogues :
                    d # DialogueIdOf(qidA) => after[d] = dialogues[d]
              /\ \A qidB \in QuestionIds :
                    DialogueIdOf(qidB) # DialogueIdOf(qidA)
                    => GetContext(after, qidB, context_window)
                       = GetContext(dialogues, qidB, context_window)

C11_Witness ==
    /\ DOMAIN dialogues = { <<"a">>, <<"b">> }
    /\ Len(dialogues[<<"a">>]) >= 2
    /\ dialogues[<<"a">>][1].question_id # dialogues[<<"a">>][2].question_id
    /\ apiCtx.called
    /\ DialogueIdOf(apiCtx.qid) = <<"b">>
    /\ Len(apiCtx.ctx.history) = 1

\* C12: once the update_history calls of all worker threads have ended, the
\* dialogue of every call exists and holds the turn of every one of the calls
\* made under its id, as far as max_history allows: no appended turn is lost
\* to an interleaving of the calls' steps.
C12_UpdateHistorySerialized ==
    (\A w \in Workers : workers[w].pc = "done")
    => \A w \in Workers :
          LET d       == DialogueIdOf(workers[w].qid)
              callers == { v \in Workers : DialogueIdOf(workers[v].qid) = d }
          IN  /\ d \in DOMAIN dialogueRefs
              /\ Cardinality({ v \in callers :
                                 \E i \in 1..Len(StoredTurns(d)) :
                                    StoredTurns(d)[i].timestamp = workers[v].stamp })
                 >= Min(Cardinality(callers), max_history)

\* the distance of a hit of the latest search from its query
HitDistance(h) ==
    IF h.index = NoLabel THEN FltMax
    ELSE Distance(index[h.index + 1], searched.query)

\* C13: the hits of a search are a subsequence of the k candidates the index
\* returned, in the same order and by descending score; the threshold removes
\* exactly the candidates with score < threshold, and k counts the candidates
\* before the filtering.
C13_ThresholdAfterRanking ==
    (searched.called /\ ~searched.failed)
    => /\ Len(searched.candidates) = searched.k
       /\ \E f \in [1..Len(searched.hits) -> 1..Len(searched.candidates)] :
             /\ \A i, j \in 1..Len(searched.hits) : i < j => f[i] < f[j]
             /\ \A i \in 1..Len(searched.hits) :
                   searched.hits[i].index = searched.candidates[f[i]].idx
       /\ \A i, j \in 1..Len(searched.hits) :
             i < j => Geq(searched.hits[i].score, searched.hits[j].score)
       /\ \A i \in 1..Len(searched.hits) :
             Geq(searched.hits[i].score, searched.threshold)
       /\ Len(searched.hits)
          = Cardinality({ i \in 1..Len(searched.candidates) :
                            Geq(Rational(1, 1 + searched.candidates[i].distance),
                                searched.threshold) })

C13_Witness ==
    /\ searched.called
    /\ ~searched.failed
    /\ searched.threshold = Rational(1, 2)
    /\ Len(searched.hits) = 2
    /\ searched.k = 3
    /\ searched.hits[2].score = Rational(1, 2)
    /\ searched.candidates[3].idx # NoLabel

\* C14: every hit of a search has score = 1 / (1 + distance) with
\* 0 < score <= 1, a hit at a larger distance has a strictly smaller score,
\* and a hit at distance 0 has score exactly 1.
C14_ScoreTransform ==
    (searched.called /\ ~searched.failed)
    => /\ \A i \in 1..Len(searched.hits) :
             LET h == searched.hits[i]
             IN  /\ h.score.den > 0
                 /\ h.score.num > 0
                 /\ h.score.num <= h.score.den
                 /\ h.score.num * (1 + HitDistance(h)) = h.score.den
                 /\ HitDistance(h) = 0 => h.score.num = h.score.den
       /\ \A i, j \in 1..Len(searched.hits) :
             HitDistance(searched.hits[i]) < HitDistance(searched.hits[j])
             => ~Geq(searched.hits[j].score, searched.hits[i].score)

C14_Witness ==
    /\ searched.called
    /\ ~searched.failed
    /\ Len(searched.hits) = 3
    /\ HitDistance(searched.hits[1]) = 0
    /\ searched.hits[1].score = Rational(1, 1)
    /\ HitDistance(searched.hits[2]) = 1
    /\ HitDistance(searched.hits[3]) = 4

\* C15: the hits of a search are indexed entries among the k closest to the
\* query, by descending score, and two hits of equal score come in ascending
\* position order.
C15_KClosestDeterministicOrder ==
    (searched.called /\ ~searched.failed)
    => /\ \A i \in 1..Len(searched.hits) :
             /\ searched.hits[i].index \in 0..(Len(index) - 1)
             /\ Cardinality({ p \in 0..(Len(index) - 1) :
                                Distance(index[p + 1], searched.query)
                                   < HitDistance(searched.hits[i]) })
                < searched.k
       /\ \A i, j \in 1..Len(searched.hits) :
             i < j =>
               /\ Geq(searched.hits[i].score, searched.hits[j].score)
               /\ Geq(searched.hits[j].score, searched.hits[i].score)
                  => searched.hits[i].index < searched.hits[j].index

\* C16: a search whose index lookup failed ends in an error outcome; it does
\* not return the empty list a search without a hit above the threshold
\* returns.
C16_FailedSearchIsAnError ==
    (searched.called /\ searched.failed) => searched.raised

\* C17: a parse whose search gave a hit at a position without a data
\* dictionary row raises (IndexError) and yields no understanding: the hit is
\* neither skipped nor resolved to another row.
C17_MissingPositionReported ==
    parsed.called
    => /\ \A i \in 1..Len(parsed.hits) : parsed.hits[i] >= 0
       /\ (\E i \in 1..Len(parsed.hits) : parsed.hits[i] >= Len(Catalog))
          => (/\ parsed.r.raised
              /\ parsed.r.error = "IndexError"
              /\ parsed.r.understanding = NoUnderstanding)

C17_Witness ==
    /\ parsed.called
    /\ Len(index) = Len(Catalog) + 1
    /\ \E i \in 1..Len(parsed.hits) : parsed.hits[i] = Len(Catalog)
    /\ parsed.r.raised
    /\ parsed.r.error = "IndexError"

\* C18: after startup the index holds as many vectors as the data dictionary
\* has rows, and so does the store's count: no operation changes the index.
C18_IndexMatchesCatalog ==
    /\ Len(index) = Len(Catalog)
    /\ count = Len(Catalog)
    /\ \A i \in 1..Len(index) : index[i] \in Vectors

\* C19: the relevant tables of an understanding are in the order of the
\* retrieval hits and hold each table at most once.
C19_RelevantTablesRankedOnce ==
    (parsed.called /\ ~parsed.r.raised)
    => LET tabs   == parsed.r.understanding.relevant_tables
           ranked == RelevantTables(parsed.hits)
       IN  /\ \A i \in 1..Len(tabs) : FirstIndex(ranked, tabs[i]) > 0
           /\ \A i, j \in 1..Len(tabs) :
                 i < j => FirstIndex(ranked, tabs[i]) < FirstIndex(ranked, tabs[j])

\* C20: every entity an understanding carries has its table identifier or its
\* value set.
C20_UnderstandingEntitiesValid ==
    \A i \in 1..Len(understanding.entities) :
        \/ Truthy(understanding.entities[i].entity_value)
        \/ /\ "table_name" \in DOMAIN understanding.entities[i]
           /\ Truthy(understanding.entities[i].table_name)

\* C26: get_context is read-only: a call, for a known or an unknown question
\* id, leaves the stored dialogues and their turns as they were and creates
\* no dialogue.
C26_GetContextReadOnly ==
    [][ (apiCtx' # apiCtx \/ (apiCtx.called /\ clock' = clock))
        => dialogues' = dialogues ]_vars

C26_Witness ==
    /\ apiCtx.called
    /\ DialogueIdOf(apiCtx.qid) \notin DOMAIN dialogues
    /\ DOMAIN dialogues = { <<"b">> }
    /\ Len(dialogues[<<"b">>]) = 2

\* C29: get_context gives one history entry per turn of the window, in the
\* order of the turns: the entry at window index i (from 0) has role human and
\* the turn's question for an even i, role assistant and the turn's answer
\* for an odd i.
C29_OneEntryPerTurn ==
    \A qid \in QuestionIds :
        DialogueIdOf(qid) \in DOMAIN dialogues
        => LET turns  == dialogues[DialogueIdOf(qid)]
               n      == IF context_window = 0 THEN Len(turns)
                         ELSE Min(context_window, Len(turns))
               offset == Len(turns) - n
               h      == GetContext(dialogues, qid, context_window).ctx.history
           IN  /\ Len(h) = n
               /\ \A i \in 0..(n - 1) :
                     IF i % 2 = 0
                     THEN /\ h[i + 1].role = "human"
                          /\ h[i + 1].content = turns[offset + i + 1].question
                     ELSE /\ h[i + 1].role = "assistant"
                          /\ h[i + 1].content = turns[offset + i + 1].answer

C29_Witness ==
    /\ apiCtx.called
    /\ DialogueIdOf(apiCtx.qid) \in DOMAIN dialogues
    /\ Len(dialogues[DialogueIdOf(apiCtx.qid)]) = 2
    /\ Len(apiCtx.ctx.history) = 2
    /\ apiCtx.ctx.metadata.turn_count = 2
    /\ apiCtx.ctx.history[1].role = "human"
    /\ apiCtx.ctx.history[2].role = "assistant"
    /\ apiCtx.ctx.history[2].content = dialogues[DialogueIdOf(apiCtx.qid)][2].answer

\* C24: every process_question call ends in one of three outcomes: it returns
\* the final answer (the text before the sentinel), it returns the latest
\* partial answer after max_iteration iterations, or it raises an error; an
\* empty string is returned only when a failure was logged.
C24_ThreeOutcomes ==
    /\ pc \in Ended =>
         \/ /\ pc = "returned"
            /\ iter < max_iteration
            /\ HasSentinel(ScriptedAnswer(iter + 1))
            /\ answer = SplitFirst(ScriptedAnswer(iter + 1), Sentinel)
         \/ /\ pc = "returned"
            /\ iter = max_iteration
            /\ answer = ScriptedAnswer(max_iteration)
         \/ /\ pc = "raised"
            /\ error # "none"
    /\ (pc = "returned" /\ answer = <<>>) => log.failureLogged

C24_Witness ==
    /\ pc = "raised"
    /\ error = "TypeError"
    /\ log.failureLogged
    /\ answer = <<>>

\* the iterations of the call that end with an answer lacking the sentinel:
\* those before the first reply that carries it
PartialIterations ==
    { n \in 1..max_iteration : \A m \in 1..n : ~HasSentinel(ScriptedAnswer(m)) }

ResponseSection(content) ==
    LET c == Strip(content)
        i == FirstIndex(c, ResponseTag)
    IN  Strip(SubSeq(c, i + 1, Len(c)))

\* C27: generate_answer returns the whole RESPONSE section of the reply, so
\* the returned answer carries the sentinel whenever the section does, also
\* when whitespace separates the sentinel from the reply text.
C27_WholeResponseSection ==
    (generated.called /\ ~NoResponseSection(generated.content))
    => (/\ HasSentinel(ResponseSection(generated.content))
           => HasSentinel(generated.answer)
        /\ generated.answer = ResponseSection(generated.content))

\* C21: every attempt of a collaborator call is bounded by a timeout, so no
\* call waits for ever on a collaborator that stopped responding; an attempt
\* that timed out counts as a failed attempt and is retried like any other.
C21_CallsBoundedByTimeout ==
    /\ (call.pc = "waiting" /\ call.silent) => call.timeout # NoTimeout
    /\ \A i \in 1..Len(call.errors) :
          (call.errors[i] = "TimeoutError" /\ i < call.limit)
          => (Len(call.waits) >= i /\ call.attempt >= i)

\* C22: a failed collaborator call is retried at most max_retries attempts
\* in total, the wait between attempts doubles from one attempt to the next,
\* and when every attempt failed the error of the last one is raised.
C22_BoundedRetriesExponentialWait ==
    /\ call.pc # "idle" => call.attempt <= call.configured
    /\ \A i \in 1..(Len(call.waits) - 1) : call.waits[i + 1] = 2 * call.waits[i]
    /\ call.pc = "raised"
       => (/\ Len(call.errors) = call.configured
           /\ call.error = call.errors[Len(call.errors)])

C25_OneEntryPerGroup ==
    run_pc = "returned"
    => (/\ Len(processed_results) = Len(tid_groups)
        /\ \A i \in 1..Len(processed_results) :
              /\ i <= Len(tid_groups)
              /\ processed_results[i].tid = tid_groups[i].tid
              /\ Len(processed_results[i].team) = Len(tid_groups[i].team)
              /\ \A j \in 1..Len(processed_results[i].team) :
                    processed_results[i].team[j].id = tid_groups[i].team[j].id)

\* C30: when a question of a TID group raises, the entry of that group holds
\* the failure message for every question of the group; the entries of the
\* other groups are those of their own tasks, and process_all_tids returns
\* without raising.
C30_FailedGroupAllFailureRecords ==
    /\ run_pc \in { "idle", "awaiting", "returned" }
    /\ \A k \in 1..Len(processed_results) :
          /\ processed_results[k].tid = futures[k].tid
          /\ futures[k].pc = "raised"
             => (/\ Len(processed_results[k].team) = Len(futures[k].team)
                 /\ \A j \in 1..Len(futures[k].team) :
                       /\ processed_results[k].team[j].id = futures[k].team[j].id
                       /\ processed_results[k].team[j].answer
                             = FailureAnswer(futures[k].error))
          /\ futures[k].pc = "done"
             => processed_results[k].team = futures[k].results

C30_Witness ==
    /\ run_pc = "returned"
    /\ Len(processed_results) = 3
    /\ Len(processed_results[1].team) = 2
    /\ processed_results[1].team[2].answer = FailureAnswer("TypeError")
    /\ processed_results[2].team[1].answer = FailureAnswer("LLMError")
    /\ processed_results[3].team[1].answer = FailureAnswer("TypeError")

====
